---- MODULE Spec2Model ----
(***************************************************************************)
(* Model of the AsBitMask / AsBits derive macros (as_bit_mask_derive) and  *)
(* of the code they generate for the traits of as_bit_mask.               *)
(*                                                                         *)
(* A struct is declared field by field, one of the four derive macros is   *)
(* expanded on it (which may panic), and the generated as_bytes /          *)
(* from_bytes / as_bits / from_bits are then called on struct literals and *)
(* on received buffers.                                                    *)
(***************************************************************************)
EXTENDS Integers, Sequences, FiniteSets, TLC

VARIABLES fields, total_bits, derive, N, pc, src, input, config, encoded,
          reconstructed

vars == <<fields, total_bits, derive, N, pc, src, input, config, encoded,
          reconstructed>>

(* ------------------------------ bounds --------------------------------- *)

\* most fields of a struct that carries an #[index(n)] attribute
MaxFields == 3
\* most fields of a struct without attributes
MaxFlags == 12
\* #[index(n)] takes every n in 0..MaxLowIndex, and the indices of TestIndices
MaxLowIndex == 3

\* Option::None of the index / total_bits attributes
None == -1

\* indices used by the tests of as_bit_mask: byte edge, second byte, fourth byte
TestIndices == {7, 8, 30}
\* #[total_bits(n)] values of the test and of the macro's documentation
TestTotalBits == {8, 32}

IndexSet == (0..MaxLowIndex) \cup TestIndices
TotalBitsSet == (0..(MaxLowIndex + 1)) \cup TestTotalBits

(* --------------------------- u8 arithmetic ----------------------------- *)

RECURSIVE BitOr(_, _)
BitOr(a, b) ==
    IF a = 0 THEN b
    ELSE IF b = 0 THEN a
    ELSE (IF a % 2 = 1 \/ b % 2 = 1 THEN 1 ELSE 0) + 2 * BitOr(a \div 2, b \div 2)

RECURSIVE BitAnd(_, _)
BitAnd(a, b) ==
    IF a = 0 \/ b = 0 THEN 0
    ELSE (IF a % 2 = 1 /\ b % 2 = 1 THEN 1 ELSE 0) + 2 * BitAnd(a \div 2, b \div 2)

\* x << s on u8
Shl(x, s) == (x * (2 ^ s)) % 256

\* `b as u8`
AsU8(b) == IF b THEN 1 ELSE 0

\* #(#exprs)|*  : the terms joined by `|`, left to right
RECURSIVE OrAll(_)
OrAll(terms) ==
    IF terms = <<>> THEN 0
    ELSE IF Len(terms) = 1 THEN terms[1]
    ELSE BitOr(OrAll(SubSeq(terms, 1, Len(terms) - 1)), terms[Len(terms)])

(* ------------------- derive(AsBitMask): implicit bytes ----------------- *)

\* let num_bytes = (num_fields + 7) / 8
num_bytes_implicit(field_names) == (Len(field_names) + 7) \div 8

\* the byte_expr of one byte: one term per bit_pos whose field_index exists
byte_expr_implicit(field_names, self, byte_index) ==
    LET num_fields == Len(field_names)
        present == {bit_pos \in 0..7 : byte_index * 8 + bit_pos < num_fields}
    IN  [k \in 1..Cardinality(present) |->
            Shl(AsU8(self[byte_index * 8 + (k - 1) + 1]), k - 1)]

as_bytes_implicit_drop7(field_names, self) ==
    [byte_index \in 0..(num_bytes_implicit(field_names) - 1) |->
        LET e == byte_expr_implicit(field_names, self, byte_index)
        IN  IF Len(e) = 8 THEN OrAll(SubSeq(e, 1, 7)) ELSE OrAll(e)]

\* generated as_bytes: [#(#as_bytes_expressions),*]
as_bytes_implicit(field_names, self) ==
    [byte_index \in 0..(num_bytes_implicit(field_names) - 1) |->
        LET e == byte_expr_implicit(field_names, self, byte_index)
        IN  IF e # <<>> THEN OrAll(e) ELSE 0]

\* generated from_bytes: #field: (bytes[#byte_index] & (1 << #bit_pos)) != 0
from_bytes_implicit(field_names, bytes) ==
    [k \in 1..Len(field_names) |->
        LET field_index == k - 1
            byte_index == field_index \div 8
            bit_pos == field_index % 8
        IN  BitAnd(bytes[byte_index], Shl(1, bit_pos)) # 0]

\* indices that the generated from_bytes applies to `bytes`
reads_bytes_implicit(field_names) ==
    {(k - 1) \div 8 : k \in 1..Len(field_names)}

(* --------------- derive(AsBitMaskExplicit): explicit bytes ------------- *)

RECURSIVE SeqMax(_)
SeqMax(s) ==
    IF Len(s) = 1 THEN s[1]
    ELSE LET m == SeqMax(Tail(s)) IN IF s[1] >= m THEN s[1] ELSE m

\* field_data.iter().map(|(_, idx)| *idx).max().unwrap_or(0)
max_index(field_data) == IF field_data = <<>> THEN 0 ELSE SeqMax(field_data)

num_bytes_explicit_floor(field_data) == (max_index(field_data) + 7) \div 8

\* let num_bytes = (max_index + 8) / 8
num_bytes_explicit(field_data) == (max_index(field_data) + 8) \div 8

\* field_data.iter().filter(|(_, idx)| *idx >= byte_start && *idx <= byte_end):
\* the positions of the fields of one byte, in declaration order
RECURSIVE byte_fields(_, _, _)
byte_fields(field_data, byte_index, upto) ==
    LET byte_start == byte_index * 8
        byte_end == byte_start + 7
    IN  IF upto = 0 THEN <<>>
        ELSE IF field_data[upto] >= byte_start /\ field_data[upto] <= byte_end
             THEN Append(byte_fields(field_data, byte_index, upto - 1), upto)
             ELSE byte_fields(field_data, byte_index, upto - 1)

as_bytes_explicit_msb(field_data, self) ==
    [byte_index \in 0..(num_bytes_explicit(field_data) - 1) |->
        LET bf == byte_fields(field_data, byte_index, Len(field_data))
        IN  IF bf = <<>> THEN 0
            ELSE OrAll([j \in 1..Len(bf) |->
                        Shl(AsU8(self[bf[j]]), 7 - (field_data[bf[j]] % 8))])]

\* generated as_bytes: each byte is 0 or the `|` of ((self.field as u8) << bit_pos)
as_bytes_explicit(field_data, self) ==
    [byte_index \in 0..(num_bytes_explicit(field_data) - 1) |->
        LET bf == byte_fields(field_data, byte_index, Len(field_data))
        IN  IF bf = <<>> THEN 0
            ELSE OrAll([j \in 1..Len(bf) |->
                        Shl(AsU8(self[bf[j]]), field_data[bf[j]] % 8)])]

from_bytes_explicit_mod7(field_data, bytes) ==
    [k \in 1..Len(field_data) |->
        LET idx == field_data[k]
            byte_index == idx \div 8
            bit_pos == idx % 7
        IN  BitAnd(bytes[byte_index], Shl(1, bit_pos)) # 0]

\* generated from_bytes: #field: (bytes[#byte_index] & (1 << #bit_pos)) != 0
from_bytes_explicit(field_data, bytes) ==
    [k \in 1..Len(field_data) |->
        LET idx == field_data[k]
            byte_index == idx \div 8
            bit_pos == idx % 8
        IN  BitAnd(bytes[byte_index], Shl(1, bit_pos)) # 0]

reads_bytes_explicit(field_data) ==
    {field_data[k] \div 8 : k \in 1..Len(field_data)}

(* ---------------------- derive(AsBits): implicit array ----------------- *)

\* generated as_bits: [self.f0, self.f1, ...]
as_bits_implicit(field_names, self) ==
    [i \in 0..(Len(field_names) - 1) |-> self[i + 1]]

\* generated from_bits: #field: bits[#idx]
from_bits_implicit(field_names, bits) ==
    [k \in 1..Len(field_names) |-> bits[k - 1]]

reads_bits_implicit(field_names) == {k - 1 : k \in 1..Len(field_names)}

(* ------------------ derive(AsBitsExplicit): explicit array ------------- *)

\* let array_size = total_bits.unwrap_or(max_index + 1)
array_size(total, field_data) ==
    IF total = None THEN max_index(field_data) + 1 ELSE total

too_small_strict(size, field_data) == size < max_index(field_data)

\* if array_size <= max_index { panic!("total_bits value ... is too small") }
too_small(size, field_data) == size <= max_index(field_data)

as_bits_explicit_fill(field_data, size, self) ==
    [i \in 0..(size - 1) |->
        LET at == {k \in 1..Len(field_data) : field_data[k] = i}
        IN  IF at # {} THEN self[CHOOSE k \in at : \A j \in at : k <= j]
            ELSE TRUE]

as_bits_explicit_last(field_data, size, self) ==
    [i \in 0..(size - 1) |->
        LET at == {k \in 1..Len(field_data) : field_data[k] = i}
        IN  IF at # {} THEN self[CHOOSE k \in at : \A j \in at : j <= k]
            ELSE FALSE]

\* generated as_bits: slot i is self.field for the first field found with
\* idx == i (field_data.iter().find), and `false` when none is found
as_bits_explicit(field_data, size, self) ==
    [i \in 0..(size - 1) |->
        LET at == {k \in 1..Len(field_data) : field_data[k] = i}
        IN  IF at # {} THEN self[CHOOSE k \in at : \A j \in at : k <= j]
            ELSE FALSE]

from_bits_explicit_first(field_data, bits) ==
    [k \in 1..Len(field_data) |-> bits[0]]

\* generated from_bits: #field: bits[#idx]
from_bits_explicit(field_data, bits) ==
    [k \in 1..Len(field_data) |-> bits[field_data[k]]]

reads_bits_explicit(field_data) == {field_data[k] : k \in 1..Len(field_data)}

(* ----------------------------- the program ----------------------------- *)

ByteDerives == {"AsBitMask", "AsBitMaskExplicit"}
BitDerives == {"AsBits", "AsBitsExplicit"}

\* no field carries an #[index(n)] attribute
Plain(fs) == \A k \in 1..Len(fs) : fs[k] = None
\* index.expect("Field '{}' is missing #[index(n)] attribute") fails
MissingIndex(fs) == \E k \in 1..Len(fs) : fs[k] = None

\* bit index of the k-th declared field under the expanded derive
BitIndex(k) == IF derive \in {"AsBitMask", "AsBits"} THEN k - 1 ELSE fields[k]

\* number of bit positions of the encoding
Width == IF derive \in ByteDerives THEN 8 * N ELSE N

Claimed == {BitIndex(k) : k \in 1..Len(fields)}
Unclaimed == (0..(Width - 1)) \ Claimed
\* the unclaimed positions a received buffer may have set: lowest and highest
NoiseBits ==
    {p \in Unclaimed : (\A q \in Unclaimed : p <= q) \/ (\A q \in Unclaimed : q <= p)}

\* the byte array whose set bits are exactly the positions of S
PackBytes(S, n) ==
    [i \in 0..(n - 1) |->
        LET W(p) == IF (8 * i + p) \in S THEN 2 ^ p ELSE 0
        IN  W(0) + W(1) + W(2) + W(3) + W(4) + W(5) + W(6) + W(7)]

Init ==
    /\ fields = <<>>
    /\ total_bits = None
    /\ derive = "none"
    /\ N = 0
    /\ pc = "declare"
    /\ src = "none"
    /\ input = <<>>
    /\ config = <<>>
    /\ encoded = <<>>
    /\ reconstructed = <<>>

\* #[total_bits(n)] on the struct
DeclareTotalBits(t) ==
    /\ pc = "declare"
    /\ fields = <<>>
    /\ total_bits = None
    /\ total_bits' = t
    /\ UNCHANGED <<fields, derive, N, pc, src, input, config, encoded, reconstructed>>

\* `name: bool`
DeclareField ==
    /\ pc = "declare"
    /\ Len(fields) < MaxFlags
    /\ (Len(fields) < MaxFields \/ Plain(fields))
    /\ fields' = Append(fields, None)
    /\ UNCHANGED <<total_bits, derive, N, pc, src, input, config, encoded, reconstructed>>

\* `#[index(n)] name: bool`
DeclareIndexedField(idx) ==
    /\ pc = "declare"
    /\ Len(fields) < MaxFields
    /\ fields' = Append(fields, idx)
    /\ UNCHANGED <<total_bits, derive, N, pc, src, input, config, encoded, reconstructed>>

\* #[derive(AsBitMask)]; it registers no helper attribute
derive_as_bit_mask ==
    /\ pc = "declare"
    /\ Plain(fields)
    /\ total_bits = None
    /\ derive' = "AsBitMask"
    /\ N' = num_bytes_implicit(fields)
    /\ pc' = "impl"
    /\ UNCHANGED <<fields, total_bits, src, input, config, encoded, reconstructed>>

\* #[derive(AsBitMaskExplicit)], attributes(index)
derive_as_bit_mask_explicit ==
    /\ pc = "declare"
    /\ total_bits = None
    /\ derive' = "AsBitMaskExplicit"
    /\ IF MissingIndex(fields)
       THEN /\ pc' = "panic_missing_index"
            /\ N' = N
       ELSE /\ pc' = "impl"
            /\ N' = num_bytes_explicit(fields)
    /\ UNCHANGED <<fields, total_bits, src, input, config, encoded, reconstructed>>

\* #[derive(AsBits)]; it registers no helper attribute
derive_as_bits ==
    /\ pc = "declare"
    /\ Plain(fields)
    /\ total_bits = None
    /\ derive' = "AsBits"
    /\ N' = Len(fields)
    /\ pc' = "impl"
    /\ UNCHANGED <<fields, total_bits, src, input, config, encoded, reconstructed>>

\* #[derive(AsBitsExplicit)], attributes(index, total_bits)
derive_as_bits_explicit ==
    /\ pc = "declare"
    /\ derive' = "AsBitsExplicit"
    /\ IF MissingIndex(fields)
       THEN /\ pc' = "panic_missing_index"
            /\ N' = N
       ELSE IF too_small(array_size(total_bits, fields), fields)
       THEN /\ pc' = "panic_total_bits"
            /\ N' = N
       ELSE /\ pc' = "impl"
            /\ N' = array_size(total_bits, fields)
    /\ UNCHANGED <<fields, total_bits, src, input, config, encoded, reconstructed>>

\* the impl exists and no value is live
Ready == pc = "impl"

\* a struct literal
New(v) ==
    /\ Ready
    /\ config' = v
    /\ src' = "literal"
    /\ pc' = "config"
    /\ input' = <<>>
    /\ encoded' = <<>>
    /\ reconstructed' = <<>>
    /\ UNCHANGED <<fields, total_bits, derive, N>>

\* a caller-supplied &[u8; N]
ReceiveBytes(S) ==
    /\ Ready
    /\ derive \in ByteDerives
    /\ input' = PackBytes(S, N)
    /\ src' = "input"
    /\ pc' = "input"
    /\ config' = <<>>
    /\ encoded' = <<>>
    /\ reconstructed' = <<>>
    /\ UNCHANGED <<fields, total_bits, derive, N>>

\* a caller-supplied &[bool; N]
ReceiveBits(S) ==
    /\ Ready
    /\ derive \in BitDerives
    /\ input' = [i \in 0..(N - 1) |-> i \in S]
    /\ src' = "input"
    /\ pc' = "input"
    /\ config' = <<>>
    /\ encoded' = <<>>
    /\ reconstructed' = <<>>
    /\ UNCHANGED <<fields, total_bits, derive, N>>

\* the values of one use go out of scope
Drop ==
    /\ pc \in {"input", "config", "encoded", "reconstructed"}
    /\ pc' = "impl"
    /\ src' = "none"
    /\ input' = <<>>
    /\ config' = <<>>
    /\ encoded' = <<>>
    /\ reconstructed' = <<>>
    /\ UNCHANGED <<fields, total_bits, derive, N>>

\* AsBitMask::as_bytes(&self) -> [u8; N]
as_bytes ==
    /\ pc = "config"
    /\ derive \in ByteDerives
    /\ encoded' = IF derive = "AsBitMask"
                  THEN as_bytes_implicit(fields, config)
                  ELSE as_bytes_explicit(fields, config)
    /\ pc' = "encoded"
    /\ UNCHANGED <<fields, total_bits, derive, N, src, input, config, reconstructed>>

\* every bytes[#byte_index] of the generated from_bytes is inside the array
BytesInBounds(bytes) ==
    (IF derive = "AsBitMask" THEN reads_bytes_implicit(fields)
     ELSE reads_bytes_explicit(fields)) \subseteq DOMAIN bytes

\* the value of from_bytes(bytes); an index past the array panics
FromBytes(bytes) ==
    IF ~BytesInBounds(bytes) THEN <<>>
    ELSE IF derive = "AsBitMask" THEN from_bytes_implicit(fields, bytes)
    ELSE from_bytes_explicit(fields, bytes)

\* AsBitMask::from_bytes(bytes: &[u8; N]) -> Self
from_bytes ==
    /\ derive \in ByteDerives
    /\ \/ /\ pc = "input"
          /\ config' = FromBytes(input)
          /\ pc' = IF BytesInBounds(input) THEN "config" ELSE "panic_bounds"
          /\ UNCHANGED reconstructed
       \/ /\ pc = "encoded"
          /\ reconstructed' = FromBytes(encoded)
          /\ pc' = IF BytesInBounds(encoded) THEN "reconstructed" ELSE "panic_bounds"
          /\ UNCHANGED config
    /\ UNCHANGED <<fields, total_bits, derive, N, src, input, encoded>>

\* AsBits::as_bits(&self) -> [bool; N]
as_bits ==
    /\ pc = "config"
    /\ derive \in BitDerives
    /\ encoded' = IF derive = "AsBits"
                  THEN as_bits_implicit(fields, config)
                  ELSE as_bits_explicit(fields, N, config)
    /\ pc' = "encoded"
    /\ UNCHANGED <<fields, total_bits, derive, N, src, input, config, reconstructed>>

\* every bits[#idx] of the generated from_bits is inside the array
BitsInBounds(bits) ==
    (IF derive = "AsBits" THEN reads_bits_implicit(fields)
     ELSE reads_bits_explicit(fields)) \subseteq DOMAIN bits

\* the value of from_bits(bits); an index past the array panics
FromBits(bits) ==
    IF ~BitsInBounds(bits) THEN <<>>
    ELSE IF derive = "AsBits" THEN from_bits_implicit(fields, bits)
    ELSE from_bits_explicit(fields, bits)

\* AsBits::from_bits(bits: &[bool; N]) -> Self
from_bits ==
    /\ derive \in BitDerives
    /\ \/ /\ pc = "input"
          /\ config' = FromBits(input)
          /\ pc' = IF BitsInBounds(input) THEN "config" ELSE "panic_bounds"
          /\ UNCHANGED reconstructed
       \/ /\ pc = "encoded"
          /\ reconstructed' = FromBits(encoded)
          /\ pc' = IF BitsInBounds(encoded) THEN "reconstructed" ELSE "panic_bounds"
          /\ UNCHANGED config
    /\ UNCHANGED <<fields, total_bits, derive, N, src, input, encoded>>

Next ==
    \/ \E t \in TotalBitsSet : DeclareTotalBits(t)
    \/ DeclareField
    \/ \E idx \in IndexSet : DeclareIndexedField(idx)
    \/ derive_as_bit_mask
    \/ derive_as_bit_mask_explicit
    \/ derive_as_bits
    \/ derive_as_bits_explicit
    \/ Ready /\ \E v \in [1..Len(fields) -> BOOLEAN] : New(v)
    \/ Ready /\ \E S \in SUBSET (Claimed \cup NoiseBits) : ReceiveBytes(S)
    \/ Ready /\ \E S \in SUBSET (Claimed \cup NoiseBits) : ReceiveBits(S)
    \/ as_bytes
    \/ from_bytes
    \/ as_bits
    \/ from_bits
    \/ Drop

Spec == Init /\ [][Next]_vars

(* ------------------------------ properties ----------------------------- *)

\* the derive expanded without a panic
Expanded == pc \in {"impl", "input", "config", "encoded", "reconstructed"}

\* the fields that claim bit position b
Owners(b) == {k \in 1..Len(fields) : BitIndex(k) = b}

\* two flags share one bit index
Collision == \E b \in Claimed : Cardinality(Owners(b)) >= 2

\* bit (b % 8) of byte (b / 8), least significant bit first
BitOf(bytes, b) == (bytes[b \div 8] \div (2 ^ (b % 8))) % 2

SetMax(S) == CHOOSE m \in S : \A x \in S : x <= m
SetMin(S) == CHOOSE m \in S : \A x \in S : m <= x
CeilDiv8(x) == CHOOSE n \in 0..x : 8 * n >= x /\ 8 * n < x + 8

\* C1: byte form round trip - without a bit-index collision,
\* from_bytes(as_bytes(values)) = values, for implicit and explicit indexing
C1_ByteRoundTrip ==
    (derive \in ByteDerives /\ pc = "reconstructed" /\ ~Collision)
        => reconstructed = config

C1_Witness ==
    /\ derive = "AsBitMaskExplicit"
    /\ pc = "reconstructed"
    /\ src = "literal"
    /\ fields = <<8, 0, 30>>
    /\ config = <<TRUE, FALSE, TRUE>>
    /\ reconstructed = config

\* C2: byte form layout - as_bytes returns N bytes; bit (b % 8) of byte (b / 8)
\* is the value of the flag whose bit index is b, and 0 when no flag has it
C2_ByteLayout ==
    (derive \in ByteDerives /\ pc \in {"encoded", "reconstructed"}) =>
        /\ DOMAIN encoded = 0..(N - 1)
        /\ \A i \in 0..(N - 1) : encoded[i] \in 0..255
        /\ \A b \in 0..(8 * N - 1) :
              /\ Owners(b) = {} => BitOf(encoded, b) = 0
              /\ \A k \in Owners(b) :
                    Owners(b) = {k} => BitOf(encoded, b) = AsU8(config[k])

C2_Witness ==
    /\ derive = "AsBitMaskExplicit"
    /\ pc = "encoded"
    /\ fields = <<30, 0>>
    /\ config = <<TRUE, TRUE>>
    /\ N = 4
    /\ encoded[0] = 1 /\ encoded[1] = 0 /\ encoded[2] = 0 /\ encoded[3] = 64

\* C3: array form layout - as_bits returns N booleans; slot i is the value of
\* the flag whose bit index is i, and false when no flag has it
C3_ArrayLayout ==
    (derive \in BitDerives /\ pc \in {"encoded", "reconstructed"}) =>
        /\ DOMAIN encoded = 0..(N - 1)
        /\ \A i \in 0..(N - 1) :
              /\ Owners(i) = {} => encoded[i] = FALSE
              /\ \A k \in Owners(i) : Owners(i) = {k} => encoded[i] = config[k]

C3_Witness ==
    /\ derive = "AsBitsExplicit"
    /\ pc = "encoded"
    /\ fields = <<0, 3, 7>>
    /\ total_bits = 8
    /\ config = <<TRUE, FALSE, TRUE>>
    /\ N = 8
    /\ \A i \in 0..7 : encoded[i] = (i \in {0, 7})

\* C4: array form round trip - without a bit-index collision,
\* from_bits(as_bits(values)) = values, with and without a total_bits override
C4_ArrayRoundTrip ==
    (derive \in BitDerives /\ pc = "reconstructed" /\ ~Collision)
        => reconstructed = config

C4_Witness ==
    /\ derive = "AsBitsExplicit"
    /\ pc = "reconstructed"
    /\ src = "literal"
    /\ total_bits = 32
    /\ fields = <<8, 0, 3>>
    /\ config = <<TRUE, FALSE, TRUE>>
    /\ reconstructed = config

\* C5: byte width - for a non-empty schema the byte form has
\* ceil(total_bits / 8) bytes, total_bits being the number of flags (implicit)
\* or the maximum declared index + 1 (explicit)
C5_ByteWidth ==
    (derive \in ByteDerives /\ Expanded /\ fields # <<>>) =>
        /\ derive = "AsBitMask" => N = CeilDiv8(Len(fields))
        /\ derive = "AsBitMaskExplicit" => N = CeilDiv8(SetMax(Claimed) + 1)
        /\ (derive = "AsBitMask" /\ Len(fields) \in {3, 8}) => N = 1
        /\ (derive = "AsBitMask" /\ Len(fields) \in {9, 12}) => N = 2
        /\ (derive = "AsBitMaskExplicit" /\ SetMax(Claimed) = 7) => N = 1
        /\ (derive = "AsBitMaskExplicit" /\ SetMax(Claimed) = 8) => N = 2
        /\ (derive = "AsBitMaskExplicit" /\ SetMax(Claimed) = 30) => N = 4

C5_Witness ==
    /\ derive = "AsBitMaskExplicit"
    /\ pc = "impl"
    /\ fields = <<1, 30, 8>>
    /\ N = 4

\* C6 (as claimed): explicit array form without override has length
\* max(declared indices) + 1, and length 0 for an empty declaration list
C6_WidthNoOverride ==
    (derive = "AsBitsExplicit" /\ Expanded /\ total_bits = None) =>
        N = IF fields = <<>> THEN 0 ELSE SetMax(Claimed) + 1

\* C7 (as claimed): with an override T the expansion fails iff some declared
\* index is >= T, and otherwise the array length is exactly T
C7_OverrideRange ==
    (derive = "AsBitsExplicit" /\ total_bits # None /\ ~MissingIndex(fields)) =>
        /\ pc = "panic_total_bits" <=> (\E k \in 1..Len(fields) : fields[k] >= total_bits)
        /\ Expanded => N = total_bits

\* the received bytes with every bit that no flag claims cleared
ClearUnclaimed(bytes) ==
    PackBytes({p \in Claimed : BitOf(bytes, p) = 1}, N)

\* C8: reverse round trip - as_bytes(from_bytes(b)) is b with every unclaimed
\* bit cleared, hence b itself when b has no unclaimed bit set
C8_ReverseRoundTrip ==
    (derive \in ByteDerives /\ src = "input" /\ pc \in {"encoded", "reconstructed"}) =>
        /\ encoded = ClearUnclaimed(input)
        /\ (\A p \in Unclaimed : BitOf(input, p) = 0) => encoded = input

C8_Witness ==
    /\ derive = "AsBitMask"
    /\ src = "input"
    /\ pc = "encoded"
    /\ Len(fields) = 3
    /\ input[0] = 13
    /\ encoded[0] = 5

\* C9 (as claimed): under a collision the encoded bit or slot is the value of
\* the colliding flag that comes last in declaration order
C9_LastWriteWins ==
    (derive \in {"AsBitMaskExplicit", "AsBitsExplicit"} /\ pc = "encoded") =>
        \A b \in Claimed :
            Cardinality(Owners(b)) >= 2 =>
                IF derive = "AsBitMaskExplicit"
                THEN BitOf(encoded, b) = AsU8(config[SetMax(Owners(b))])
                ELSE encoded[b] = config[SetMax(Owners(b))]

\* C9 (amended): under a collision the byte form holds the OR of the
\* colliding flags, and the array form the value of the colliding flag that
\* comes first in declaration order
C9_OrAndFirstWins ==
    (derive \in {"AsBitMaskExplicit", "AsBitsExplicit"} /\ pc = "encoded") =>
        \A b \in Claimed :
            Cardinality(Owners(b)) >= 2 =>
                IF derive = "AsBitMaskExplicit"
                THEN BitOf(encoded, b) = 1 <=> (\E k \in Owners(b) : config[k])
                ELSE encoded[b] = config[SetMin(Owners(b))]

C9_Witness ==
    /\ derive = "AsBitsExplicit"
    /\ pc = "encoded"
    /\ fields = <<7, 1, 7>>
    /\ config = <<TRUE, FALSE, FALSE>>
    /\ encoded[7] = TRUE

\* C10: decode stays in bounds - every accepted schema has every bit index
\* inside its width, and from_bytes / from_bits never index past their input
C10_DecodeInBounds ==
    /\ pc # "panic_bounds"
    /\ Expanded =>
          \A k \in 1..Len(fields) :
              /\ BitIndex(k) < Width
              /\ derive \in ByteDerives => BitIndex(k) \div 8 < N
              /\ derive \in BitDerives => BitIndex(k) < N

C10_Witness ==
    /\ derive = "AsBitsExplicit"
    /\ pc = "reconstructed"
    /\ total_bits = 8
    /\ fields = <<7, 0>>
    /\ N = 8

====
